---- MODULE Spec2Model ----
(***************************************************************************)
(* Model of the mcp-code dispatcher: Registry (name -> adapter), the three *)
(* adapters (calculator, file, api), Executor::execute and the mpsc output *)
(* channel it publishes to.                                                *)
(***************************************************************************)
EXTENDS Integers, Sequences, FiniteSets, TLC

(* ------------------------------ bounds -------------------------------- *)

\* width of the modelled signed integer (i64 in the source)
IntBits == 5
\* capacity of the mpsc channel (main.rs creates it with 32)
ChanCap == 1
\* total number of execute calls in one behaviour; each call is its own task
MaxCalls == 2
\* number of register calls in one behaviour of the registry specification
MaxRegs == 3

RECURSIVE Pow2(_)
Pow2(n) == IF n = 0 THEN 1 ELSE 2 * Pow2(n - 1)

I64Min == 0 - Pow2(IntBits - 1)
I64Max == Pow2(IntBits - 1) - 1

(* --------------------------- serde_json::Value ------------------------ *)

Null == [null |-> TRUE]
Str(s) == [str |-> s]
Num(n) == [num |-> n]
Obj(f) == [obj |-> f]
\* a number that is not an integer
Flt == [float |-> "1.5"]

None == [none |-> TRUE]
Some(v) == [some |-> v]
IsSome(o) == "some" \in DOMAIN o

\* Option::unwrap_or
unwrap_or(o, d) == IF IsSome(o) THEN o.some ELSE d

\* Value::index by a string key: Null unless an object that has the key
Index(v, k) ==
    IF "obj" \in DOMAIN v
    THEN IF k \in DOMAIN v.obj THEN v.obj[k] ELSE Null
    ELSE Null

\* Value::as_str
as_str(v) == IF "str" \in DOMAIN v THEN Some(v.str) ELSE None

\* Value::as_i64: an integer number that fits the signed width
as_i64(v) ==
    IF "num" \in DOMAIN v
    THEN IF v.num >= I64Min /\ v.num <= I64Max THEN Some(v.num) ELSE None
    ELSE None

\* Result<Value, String> of Adapter::handle
Ok(v) == [ok |-> v]
Err(e) == [err |-> e]
IsOk(r) == "ok" \in DOMAIN r
IsErr(r) == "err" \in DOMAIN r
\* the task unwinds instead of returning
Panic == [panic |-> TRUE]
IsPanic(r) == "panic" \in DOMAIN r

(* ------------------------------ state --------------------------------- *)

VARIABLES
    adapters,   \* Registry.adapters: HashMap<String, Box<dyn Adapter>>
    regLog,     \* history: the register calls made so far, in order
    task,       \* one record per execute call: its position and locals
    chan,       \* values buffered in the mpsc channel
    rxAlive,    \* the Receiver has not been dropped
    received,   \* history: values the consumer loop has received, in order
    everOnChan, \* history: every value that was ever placed on the channel
    nSent,      \* history: number of values ever placed on the channel
    sentLog,    \* history: the sends that queued a value, in order
    files,      \* file system: path -> content
    httpSent    \* number of HTTP requests issued by the api adapter

vars == <<adapters, regLog, task, chan, rxAlive, received, everOnChan, nSent,
          sentLog, files, httpSent>>

execVars == <<task, chan, rxAlive, received, everOnChan, nSent, sentLog, files,
              httpSent>>

(* ----------------------------- Registry ------------------------------- *)

\* the adapter implementations behind Box<dyn Adapter>
Handlers == {"ApiAdapter", "FileAdapter", "CalculatorAdapter"}

\* names used as registry keys and in requests
Names == {"api", "file", "calc", "ghost", ""}

\* Registry::new: an empty map
Registry_new == [k \in {} |-> "none"]

\* register as it would be with entry(name).or_insert(adapter): a first
\* registration is kept
register_keepFirst(m, name, adapter) ==
    [k \in (DOMAIN m) \cup {name} |-> IF k \in DOMAIN m THEN m[k] ELSE adapter]

\* Registry::register: HashMap::insert, replacing the entry of an existing key
register(m, name, adapter) ==
    [k \in (DOMAIN m) \cup {name} |-> IF k = name THEN adapter ELSE m[k]]

\* get as it would be with a fallback to some registered adapter
get_fallback(m, name) ==
    IF name \in DOMAIN m THEN Some(m[name])
    ELSE IF DOMAIN m = {} THEN None
    ELSE Some(m[CHOOSE k \in DOMAIN m : TRUE])

\* Registry::get: HashMap::get
get(m, name) == IF name \in DOMAIN m THEN Some(m[name]) ELSE None

\* the registry main builds before it constructs the Executor
MainRegistry ==
    register(register(register(Registry_new, "api", "ApiAdapter"),
                      "file", "FileAdapter"),
             "calc", "CalculatorAdapter")

(* ----------------------------- adapters ------------------------------- *)

\* two's-complement wrap of an integer into the signed width
Wrap(n) == ((n - I64Min) % Pow2(IntBits)) + I64Min

\* a + b on the signed width: the sum when it fits; on overflow the build
\* decides: a panic (overflow checks on) or the wrapped sum (checks off)
AddI64(a, b) ==
    IF a + b >= I64Min /\ a + b <= I64Max
    THEN {Ok(Num(a + b))}
    ELSE {Panic, Ok(Num(Wrap(a + b)))}

\* an outcome of Adapter::handle: the returned value (or the panic), the file
\* system it leaves behind, and how many fs::write calls and HTTP requests it
\* made
Outcome(ret, fs, wrote, fetched) ==
    [ret |-> ret, files |-> fs, wrote |-> wrote, fetched |-> fetched]

\* CalculatorAdapter::handle as it would be with ok_or in place of
\* unwrap_or(0): a missing operand is an error
CalculatorAdapter_handle_strict(action, params, fs) ==
    IF action = "add"
    THEN LET a == as_i64(Index(params, "a"))
             b == as_i64(Index(params, "b"))
         IN  IF ~IsSome(a) \/ ~IsSome(b)
             THEN {Outcome(Err("Missing operand"), fs, 0, 0)}
             ELSE {Outcome(r, fs, 0, 0) : r \in AddI64(a.some, b.some)}
    ELSE {Outcome(Err("Unknown action"), fs, 0, 0)}

\* CalculatorAdapter::handle
CalculatorAdapter_handle(action, params, fs) ==
    IF action = "add"
    THEN LET a == unwrap_or(as_i64(Index(params, "a")), 0)
             b == unwrap_or(as_i64(Index(params, "b")), 0)
         IN  {Outcome(r, fs, 0, 0) : r \in AddI64(a, b)}
    ELSE {Outcome(Err("Unknown action"), fs, 0, 0)}

\* tokio::fs::write: the file holds the content afterwards, or an I/O error
fs_write(fs, path, content) ==
    {[ret |-> Ok(Null),
      files |-> [p \in (DOMAIN fs) \cup {path} |->
                    IF p = path THEN content ELSE fs[p]]],
     [ret |-> Err("io error"), files |-> fs]}

\* FileAdapter::handle as it would be with unwrap_or("") on the content: a
\* missing content writes an empty file
FileAdapter_handle_emptyContent(action, params, fs) ==
    IF action = "write"
    THEN LET path == as_str(Index(params, "path"))
             content == unwrap_or(as_str(Index(params, "content")), "")
         IN  IF ~IsSome(path) THEN {Outcome(Err("Missing path"), fs, 0, 0)}
             ELSE {Outcome(IF IsOk(w.ret) THEN Ok(Str("File written"))
                                          ELSE w.ret,
                           w.files, 1, 0)
                   : w \in fs_write(fs, path.some, content)}
    ELSE {Outcome(Err("Unknown action"), fs, 0, 0)}

\* FileAdapter::handle as it would be without the match on the action:
\* every action is taken as a write
FileAdapter_handle_anyAction(action, params, fs) ==
    LET path == as_str(Index(params, "path"))
        content == as_str(Index(params, "content"))
    IN  IF ~IsSome(path) THEN {Outcome(Err("Missing path"), fs, 0, 0)}
        ELSE IF ~IsSome(content)
        THEN {Outcome(Err("Missing content"), fs, 0, 0)}
        ELSE {Outcome(IF IsOk(w.ret) THEN Ok(Str("File written")) ELSE w.ret,
                      w.files, 1, 0)
              : w \in fs_write(fs, path.some, content.some)}

\* FileAdapter::handle
FileAdapter_handle(action, params, fs) ==
    IF action = "write"
    THEN LET path == as_str(Index(params, "path"))
             content == as_str(Index(params, "content"))
         IN  IF ~IsSome(path) THEN {Outcome(Err("Missing path"), fs, 0, 0)}
             ELSE IF ~IsSome(content)
             THEN {Outcome(Err("Missing content"), fs, 0, 0)}
             ELSE {Outcome(IF IsOk(w.ret) THEN Ok(Str("File written"))
                                          ELSE w.ret,
                           w.files, 1, 0)
                   : w \in fs_write(fs, path.some, content.some)}
    ELSE {Outcome(Err("Unknown action"), fs, 0, 0)}

\* what client.get(url).send() and response.json() can come to: the send
\* fails, the body does not decode, or a decoded document
HttpReplies == {Err("request failed"), Err("decode failed"), Ok(Str("document"))}

\* ApiAdapter::handle
ApiAdapter_handle(action, params, fs) ==
    IF action = "get"
    THEN LET url == as_str(Index(params, "url"))
         IN  IF ~IsSome(url) THEN {Outcome(Err("Missing URL"), fs, 0, 0)}
             ELSE {Outcome(r, fs, 0, 1) : r \in HttpReplies}
    ELSE {Outcome(Err("Unknown action"), fs, 0, 0)}

\* dyn Adapter::handle: dispatch on the implementation behind the Box
handle(adapter, action, params, fs) ==
    CASE adapter = "CalculatorAdapter" ->
            CalculatorAdapter_handle(action, params, fs)
      [] adapter = "FileAdapter" -> FileAdapter_handle(action, params, fs)
      [] adapter = "ApiAdapter" -> ApiAdapter_handle(action, params, fs)

\* the actions each adapter's match recognizes
Recognizes(adapter, action) ==
    \/ adapter = "CalculatorAdapter" /\ action = "add"
    \/ adapter = "FileAdapter" /\ action = "write"
    \/ adapter = "ApiAdapter" /\ action = "get"

(* ----------------------------- requests ------------------------------- *)

Request(adapter, action, params) ==
    Obj([adapter |-> Str(adapter), action |-> Str(action), params |-> params])

\* the request values execute is called with: every path of every adapter,
\* an unregistered adapter, missing and mistyped fields, a non-object request
Requests ==
    { Request("calc", "add", Obj([a |-> Num(1), b |-> Num(2)])),
      Request("calc", "add", Obj([a |-> Num(I64Max), b |-> Num(1)])),
      Request("calc", "subtract", Obj([a |-> Num(1), b |-> Num(2)])),
      Request("file", "write", Obj([path |-> Str("/tmp/x"), content |-> Str("hi")])),
      Request("file", "write", Obj([path |-> Str("/tmp/x")])),
      Request("file", "read", Obj([path |-> Str("/tmp/x")])),
      Request("api", "get", Obj([url |-> Str("http://host/doc")])),
      Request("api", "get", Null),
      Request("api", "post", Obj([url |-> Str("http://host/doc")])),
      Request("ghost", "noop", Obj([k \in {} |-> Null])),
      Obj([adapter |-> Num(1), params |-> Null]),
      Null }

(* ----------------------------- Executor ------------------------------- *)

Calls == 1..MaxCalls

\* adapter_name as it would be with a default adapter for requests that
\* name none
adapter_name_default(request) ==
    unwrap_or(as_str(Index(request, "adapter")), "calc")

\* execute, lines 17-19: the three locals taken from the request
adapter_name(request) == unwrap_or(as_str(Index(request, "adapter")), "")
action_of(request) == unwrap_or(as_str(Index(request, "action")), "")
params_of(request) == Index(request, "params")

\* Response as it would be if the error arm reused the success arm's field
Response_errorData(result) ==
    IF IsOk(result)
    THEN [status |-> "success", data |-> result.ok]
    ELSE [status |-> "error", data |-> Str(result.err)]

\* Response as it would be if the success arm dropped the handler's value
Response_noData(result) ==
    IF IsOk(result)
    THEN [status |-> "success", data |-> Null]
    ELSE [status |-> "error", message |-> result.err]

\* execute, lines 24-27: the Result value built from the handler's return
Response(result) ==
    IF IsOk(result)
    THEN [status |-> "success", data |-> result.ok]
    ELSE [status |-> "error", message |-> result.err]

\* a call that has not been made yet
\* the calls that have returned to their caller
Returned == {u \in Calls : task[u].pc = "returned"}

IdleTask ==
    [pc |-> "idle", req |-> Null, adapter |-> None, result |-> None,
     response |-> None, sendResult |-> None, published |-> << >>,
     wrote |-> 0, fetched |-> 0, after |-> {}]

\* execute as it would be if an unknown adapter were reported as an error
\* Result instead of being skipped
Execute_reportUnknown(t, request) ==
    /\ task[t].pc = "idle"
    /\ IF t = 1 THEN TRUE ELSE task[t - 1].pc # "idle"
    /\ LET found == get(adapters, adapter_name(request))
       IN  task' = [task EXCEPT ![t] =
                      IF IsSome(found)
                      THEN [@ EXCEPT !.pc = "handling", !.req = request, !.after = Returned,
                                     !.adapter = found]
                      ELSE [@ EXCEPT !.pc = "sending", !.req = request, !.after = Returned,
                                     !.response =
                                        Some([status |-> "error",
                                              message |-> "Unknown adapter"])]]
    /\ UNCHANGED <<adapters, regLog, chan, rxAlive, received, everOnChan,
                   nSent, sentLog, files, httpSent>>

\* execute as it would be if the lookup took the adapter out of the map
\* (HashMap::remove instead of HashMap::get)
Execute_take(t, request) ==
    /\ task[t].pc = "idle"
    /\ IF t = 1 THEN TRUE ELSE task[t - 1].pc # "idle"
    /\ LET found == get(adapters, adapter_name(request))
       IN  /\ task' = [task EXCEPT ![t] =
                        [@ EXCEPT !.pc = IF IsSome(found) THEN "handling"
                                                          ELSE "returned",
                                  !.req = request, !.after = Returned,
                                  !.adapter = found]]
           /\ adapters' = [k \in (DOMAIN adapters) \ {adapter_name(request)}
                             |-> adapters[k]]
    /\ UNCHANGED <<regLog, chan, rxAlive, received, everOnChan,
                   nSent, sentLog, files, httpSent>>

\* execute up to its first suspension: the locals, then Registry::get; with
\* no adapter under that name the call returns at once
Execute(t, request) ==
    /\ task[t].pc = "idle"
    /\ IF t = 1 THEN TRUE ELSE task[t - 1].pc # "idle"
    /\ LET found == get(adapters, adapter_name(request))
       IN  task' = [task EXCEPT ![t] =
                      [@ EXCEPT !.pc = IF IsSome(found) THEN "handling"
                                                        ELSE "returned",
                                !.req = request, !.after = Returned,
                                !.adapter = found]]
    /\ UNCHANGED <<adapters, regLog, chan, rxAlive, received, everOnChan,
                   nSent, sentLog, files, httpSent>>

\* adapter.handle(action, params).await completes: its side effects happen,
\* and the response is built; a panic in the handler unwinds the call
HandleDone(t) ==
    /\ task[t].pc = "handling"
    /\ \E out \in handle(task[t].adapter.some, action_of(task[t].req),
                          params_of(task[t].req), files) :
          /\ files' = out.files
          /\ httpSent' = httpSent + out.fetched
          /\ task' = [task EXCEPT ![t] =
                IF IsPanic(out.ret)
                THEN [@ EXCEPT !.pc = "panicked"]
                ELSE [@ EXCEPT !.pc = "sending",
                               !.result = Some(out.ret),
                               !.response = Some(Response(out.ret)),
                               !.wrote = out.wrote,
                               !.fetched = out.fetched]]
    /\ UNCHANGED <<adapters, regLog, chan, rxAlive, received, everOnChan, nSent,
                 sentLog>>

\* the send as it would be if a queued value did not end the call, so that
\* the same response can be queued again
Send_again(t) ==
    /\ task[t].pc = "sending"
    /\ Len(task[t].published) < 2
    /\ IF ~rxAlive
       THEN /\ task' = [task EXCEPT ![t].pc = "returned",
                                    ![t].sendResult = Some(Err("closed"))]
            /\ UNCHANGED <<chan, everOnChan, nSent, sentLog>>
       ELSE /\ Len(chan) < ChanCap
            /\ chan' = Append(chan, task[t].response.some)
            /\ everOnChan' = everOnChan \cup {task[t].response.some}
            /\ nSent' = nSent + 1
            /\ sentLog' = Append(sentLog, [call |-> t,
                                           value |-> task[t].response.some])
            /\ task' = [task EXCEPT
                 ![t].pc = IF task[t].published = << >> THEN "sending"
                                                        ELSE "returned",
                 ![t].sendResult = Some(Ok(Null)),
                 ![t].published = Append(@, task[t].response.some)]
    /\ UNCHANGED <<adapters, regLog, rxAlive, received, files, httpSent>>

\* the send as it would be with try_send: a full buffer drops the value
\* and the call returns
Send_tryDrop(t) ==
    /\ task[t].pc = "sending"
    /\ IF ~rxAlive
       THEN /\ task' = [task EXCEPT ![t].pc = "returned",
                                    ![t].sendResult = Some(Err("closed"))]
            /\ UNCHANGED <<chan, everOnChan, nSent, sentLog>>
       ELSE IF Len(chan) < ChanCap
       THEN /\ chan' = Append(chan, task[t].response.some)
            /\ everOnChan' = everOnChan \cup {task[t].response.some}
            /\ nSent' = nSent + 1
            /\ sentLog' = Append(sentLog, [call |-> t,
                                           value |-> task[t].response.some])
            /\ task' = [task EXCEPT
                 ![t].pc = "returned",
                 ![t].sendResult = Some(Ok(Null)),
                 ![t].published = Append(@, task[t].response.some)]
       ELSE /\ task' = [task EXCEPT ![t].pc = "returned",
                                    ![t].sendResult = Some(Err("full"))]
            /\ UNCHANGED <<chan, everOnChan, nSent, sentLog>>
    /\ UNCHANGED <<adapters, regLog, rxAlive, received, files, httpSent>>

\* the send as it would be with .unwrap() on its result: a closed channel
\* unwinds the call
Send_unwrap(t) ==
    /\ task[t].pc = "sending"
    /\ IF ~rxAlive
       THEN /\ task' = [task EXCEPT ![t].pc = "panicked",
                                    ![t].sendResult = Some(Err("closed"))]
            /\ UNCHANGED <<chan, everOnChan, nSent, sentLog>>
       ELSE /\ Len(chan) < ChanCap
            /\ chan' = Append(chan, task[t].response.some)
            /\ everOnChan' = everOnChan \cup {task[t].response.some}
            /\ nSent' = nSent + 1
            /\ sentLog' = Append(sentLog, [call |-> t,
                                           value |-> task[t].response.some])
            /\ task' = [task EXCEPT
                 ![t].pc = "returned",
                 ![t].sendResult = Some(Ok(Null)),
                 ![t].published = Append(@, task[t].response.some)]
    /\ UNCHANGED <<adapters, regLog, rxAlive, received, files, httpSent>>

\* let _ = self.sender.send(response).await, line 29: with the receiver gone
\* the send fails and the error is discarded; with a free slot the value is
\* queued; with the buffer full the call stays suspended
Send(t) ==
    /\ task[t].pc = "sending"
    /\ IF ~rxAlive
       THEN /\ task' = [task EXCEPT ![t].pc = "returned",
                                    ![t].sendResult = Some(Err("closed"))]
            /\ UNCHANGED <<chan, everOnChan, nSent, sentLog>>
       ELSE /\ Len(chan) < ChanCap
            /\ chan' = Append(chan, task[t].response.some)
            /\ everOnChan' = everOnChan \cup {task[t].response.some}
            /\ nSent' = nSent + 1
            /\ sentLog' = Append(sentLog, [call |-> t,
                                           value |-> task[t].response.some])
            /\ task' = [task EXCEPT
                 ![t].pc = "returned",
                 ![t].sendResult = Some(Ok(Null)),
                 ![t].published = Append(@, task[t].response.some)]
    /\ UNCHANGED <<adapters, regLog, rxAlive, received, files, httpSent>>

\* a receive as it would be if the oldest buffered value were taken off the
\* channel without reaching the consumer
Recv_discard ==
    /\ rxAlive
    /\ chan # << >>
    /\ chan' = Tail(chan)
    /\ UNCHANGED <<adapters, regLog, task, rxAlive, received, everOnChan, nSent,
                   sentLog, files, httpSent>>

\* rx.recv().await in main's consumer loop takes the oldest buffered value
Recv ==
    /\ rxAlive
    /\ chan # << >>
    /\ received' = Append(received, Head(chan))
    /\ chan' = Tail(chan)
    /\ UNCHANGED <<adapters, regLog, task, rxAlive, everOnChan, nSent, sentLog, files,
                   httpSent>>

\* the Receiver is dropped: the channel closes and its buffer is discarded
DropReceiver ==
    /\ rxAlive
    /\ rxAlive' = FALSE
    /\ chan' = << >>
    /\ UNCHANGED <<adapters, regLog, task, received, everOnChan, nSent, sentLog, files,
                   httpSent>>

\* main, lines 12-21: the channel, the three registrations, Executor::new
Init ==
    /\ adapters = MainRegistry
    /\ regLog = << <<"api", "ApiAdapter">>, <<"file", "FileAdapter">>,
                   <<"calc", "CalculatorAdapter">> >>
    /\ task = [t \in Calls |-> IdleTask]
    /\ chan = << >>
    /\ rxAlive = TRUE
    /\ received = << >>
    /\ everOnChan = {}
    /\ nSent = 0
    /\ sentLog = << >>
    /\ files = [p \in {} |-> ""]
    /\ httpSent = 0

Next ==
    \/ \E t \in Calls, request \in Requests : Execute(t, request)
    \/ \E t \in Calls : HandleDone(t)
    \/ \E t \in Calls : Send(t)
    \/ Recv
    \/ DropReceiver

Spec == Init /\ [][Next]_vars

\* tokio polls every ready task and the consumer loop keeps receiving
FairSpec ==
    /\ Spec
    /\ \A t \in Calls : WF_vars(HandleDone(t)) /\ WF_vars(Send(t))
    /\ WF_vars(Recv)

\* as FairSpec, but the handler of the first call may never complete (a
\* network call that hangs)
HangSpec ==
    /\ Spec
    /\ \A t \in Calls \ {1} : WF_vars(HandleDone(t))
    /\ \A t \in Calls : WF_vars(Send(t))
    /\ WF_vars(Recv)

(* ----------------------- registry specification ----------------------- *)

\* a call registry.register(name, adapter) on the registry being built
Register(name, adapter) ==
    /\ Len(regLog) < MaxRegs
    /\ adapters' = register(adapters, name, adapter)
    /\ regLog' = Append(regLog, <<name, adapter>>)
    /\ UNCHANGED execVars

\* Registry::new, before any registration and before an Executor exists
RegInit ==
    /\ adapters = Registry_new
    /\ regLog = << >>
    /\ task = [t \in Calls |-> IdleTask]
    /\ chan = << >>
    /\ rxAlive = TRUE
    /\ received = << >>
    /\ everOnChan = {}
    /\ nSent = 0
    /\ sentLog = << >>
    /\ files = [p \in {} |-> ""]
    /\ httpSent = 0

RegNext == \E name \in Names, adapter \in Handlers : Register(name, adapter)

RegSpec == RegInit /\ [][RegNext]_vars

(* ---------------------- one-call specification ----------------------- *)

\* a field the JSON object does not have
Absent == [absent |-> TRUE]

\* the JSON object that has the fields of vals that are not Absent
MkObj(vals) == Obj([k \in {f \in DOMAIN vals : vals[f] # Absent} |-> vals[k]])

\* operands of add: none, a string, a non-integer, integers over the signed
\* range and one that only fits the unsigned range
OperandVals ==
    {Absent, Str("7"), Flt, Num(I64Min), Num(0 - 1), Num(0), Num(1), Num(5),
     Num(I64Max), Num(I64Max + 1)}

CalcRequests ==
    {Request("calc", "add", MkObj([a |-> x, b |-> y])) :
        x \in OperandVals, y \in OperandVals}
    \cup {Request("calc", "add", Null), Request("calc", "add", Str("5"))}

FileRequests ==
    {Request("file", "write", MkObj([path |-> x, content |-> y])) :
        x \in {Absent, Str("/tmp/x"), Num(1)},
        y \in {Absent, Str("hi"), Str(""), Num(1)}}
    \cup {Request("file", "write", Null)}

\* requests with a missing or mistyped adapter, action or params
RoutingRequests ==
    {MkObj([adapter |-> x, action |-> y, params |-> z]) :
        x \in {Absent, Null, Num(1), Str(""), Str("calc")},
        y \in {Absent, Num(1), Str("add")},
        z \in {Absent, Obj([a |-> Num(1), b |-> Num(2)])}}
    \cup {Null, Str("calc")}

OneCallRequests == CalcRequests \cup FileRequests \cup RoutingRequests

\* main's setup, with or without one more registration under the empty
\* name, and with or without the file already there
OneCallInit ==
    /\ \E extra \in BOOLEAN :
          /\ adapters = IF extra
                        THEN register(MainRegistry, "", "CalculatorAdapter")
                        ELSE MainRegistry
          /\ regLog = << <<"api", "ApiAdapter">>, <<"file", "FileAdapter">>,
                         <<"calc", "CalculatorAdapter">> >>
                      \o (IF extra THEN << <<"", "CalculatorAdapter">> >>
                                   ELSE << >>)
    /\ task = [t \in Calls |-> IdleTask]
    /\ chan = << >>
    /\ rxAlive = TRUE
    /\ received = << >>
    /\ everOnChan = {}
    /\ nSent = 0
    /\ sentLog = << >>
    /\ files \in {[p \in {} |-> ""], [p \in {"/tmp/x"} |-> "old"]}
    /\ httpSent = 0

\* a single execute call, from any of the requests above
OneCallNext ==
    \/ \E request \in OneCallRequests : Execute(1, request)
    \/ HandleDone(1)
    \/ Send(1)
    \/ Recv
    \/ DropReceiver

OneCallSpec == OneCallInit /\ [][OneCallNext]_vars

(* ------------------------ main's specification ------------------------ *)

\* main, lines 24-31: the request literal
MainRequest ==
    Request("calc", "add", Obj([a |-> Num(5), b |-> Num(10)]))

\* main's request, and the requests it could be replaced by
MainRequests == {MainRequest} \cup OneCallRequests

\* the senders as they would be if tx were moved into the Executor and the
\* Executor dropped once the call is over
main_senders_moved == {}

\* the Sender handles alive while the loop runs: main's tx (line 12) and the
\* clone held by the Executor (line 21); both live to the end of main
main_senders == {"tx", "executor.sender"}

\* main, line 33: executor.execute(request).await
MainExecute(request) == Execute(1, request)

\* main, lines 36-38, reached once the call has returned: a buffered value
\* is received and printed; with the buffer empty recv suspends while any
\* Sender is alive, and otherwise reports the end of the stream, which ends
\* the loop and main, dropping rx
MainLoop ==
    /\ task[1].pc = "returned"
    /\ rxAlive
    /\ IF chan # << >>
       THEN Recv
       ELSE /\ main_senders = {}
            /\ rxAlive' = FALSE
            /\ UNCHANGED <<adapters, regLog, task, chan, received, everOnChan,
                           nSent, sentLog, files, httpSent>>

MainNext ==
    \/ \E request \in MainRequests : MainExecute(request)
    \/ HandleDone(1)
    \/ Send(1)
    \/ MainLoop

\* a single task that runs whenever it can
MainSpec == Init /\ [][MainNext]_vars /\ WF_vars(MainNext)

(* ------------------------------ claims -------------------------------- *)

\* the call was dispatched: Registry::get found an adapter
Found(t) == IsSome(task[t].adapter)

\* the handler of call t has returned a value
Handled(t) == IsSome(task[t].result)

SuccessOf(v) == [status |-> "success", data |-> v]
ErrorOf(e) == [status |-> "error", message |-> e]

\* the send of call t completed without error
SendOk(t) == task[t].sendResult = Some(Ok(Null))
\* the send of call t failed because the channel was closed
SendFailed(t) == IsSome(task[t].sendResult) /\ IsErr(task[t].sendResult.some)

\* the index of the last register call made for name n
LastReg(n) ==
    CHOOSE i \in 1..Len(regLog) :
        /\ regLog[i][1] = n
        /\ \A j \in (i + 1)..Len(regLog) : regLog[j][1] # n

Registered(n) == \E i \in 1..Len(regLog) : regLog[i][1] = n

\* C1 as stated: a returned call whose handler recognized the action and
\* returned Ok(v) has published exactly one Result, {status: success, data: v}
C1_AsStated ==
    \A t \in Calls :
        (/\ task[t].pc = "returned"
         /\ Found(t)
         /\ Handled(t)
         /\ IsOk(task[t].result.some))
        => task[t].published = << SuccessOf(task[t].result.some.ok) >>

\* C1 amended: a returned call whose handler recognized the action and
\* returned Ok(v) has published exactly one Result, {status: success, data: v},
\* when its send found the receiver alive, and nothing when the receiver had
\* been dropped (the send fails only then)
C1_SuccessPublishedOnce ==
    \A t \in Calls :
        (/\ task[t].pc = "returned"
         /\ Found(t)
         /\ Handled(t)
         /\ IsOk(task[t].result.some))
        => /\ Recognizes(task[t].adapter.some, action_of(task[t].req))
           /\ SendOk(t) \/ SendFailed(t)
           /\ SendOk(t) =>
                task[t].published = << SuccessOf(task[t].result.some.ok) >>
           /\ SendFailed(t) => task[t].published = << >> /\ ~rxAlive

C1_Witness ==
    \E t \in Calls :
        /\ task[t].pc = "returned"
        /\ Found(t)
        /\ Handled(t)
        /\ IsOk(task[t].result.some)
        /\ task[t].published = << SuccessOf(task[t].result.some.ok) >>
        /\ rxAlive

\* the call was dispatched to an adapter that does not recognize its action
UnknownAction(t) ==
    /\ Found(t)
    /\ ~Recognizes(task[t].adapter.some, action_of(task[t].req))

\* C2 as stated: a returned call for a registered adapter and an action it
\* does not recognize has published exactly one Result, {status: error,
\* message: "Unknown action"}, and its handler wrote no file and sent no
\* HTTP request
C2_AsStated ==
    \A t \in Calls :
        (task[t].pc = "returned" /\ UnknownAction(t))
        => /\ task[t].published = << ErrorOf("Unknown action") >>
           /\ task[t].wrote = 0
           /\ task[t].fetched = 0

\* C2 amended: as stated when the send found the receiver alive; when the
\* receiver had been dropped nothing is published; in both cases the
\* handler returned Err("Unknown action") and made no file write and no HTTP
\* request
C2_UnknownActionError ==
    \A t \in Calls :
        (task[t].pc \in {"sending", "returned"} /\ UnknownAction(t))
        => /\ task[t].result = Some(Err("Unknown action"))
           /\ task[t].wrote = 0
           /\ task[t].fetched = 0
           /\ task[t].pc = "returned" =>
                /\ SendOk(t) \/ SendFailed(t)
                /\ SendOk(t) =>
                     task[t].published = << ErrorOf("Unknown action") >>
                /\ SendFailed(t) => task[t].published = << >> /\ ~rxAlive

C2_Witness ==
    \E t \in Calls :
        /\ task[t].pc = "returned"
        /\ UnknownAction(t)
        /\ task[t].adapter.some = "FileAdapter"
        /\ task[t].published = << ErrorOf("Unknown action") >>
        /\ files = [p \in {} |-> ""]

\* C3: a call whose adapter name is not registered returns at once with no
\* handler invoked and nothing published, and the step that makes the call
\* leaves the channel, the file system and the request count as they were
C3_UnknownAdapterNoop ==
    /\ [](\A t \in Calls :
            (task[t].pc # "idle" /\ ~Found(t))
            => /\ task[t].pc = "returned"
               /\ task[t].result = None
               /\ task[t].response = None
               /\ task[t].sendResult = None
               /\ task[t].published = << >>
               /\ task[t].wrote = 0
               /\ task[t].fetched = 0)
    /\ [][\A t \in Calls :
            (/\ task[t].pc = "idle"
             /\ task'[t].pc # "idle"
             /\ ~IsSome(get(adapters, adapter_name(task'[t].req))))
            => /\ task'[t].pc = "returned"
               /\ chan' = chan
               /\ received' = received
               /\ everOnChan' = everOnChan
               /\ nSent' = nSent
               /\ files' = files
               /\ httpSent' = httpSent]_vars

C3_Witness ==
    \E t \in Calls :
        /\ task[t].pc = "returned"
        /\ adapter_name(task[t].req) = "ghost"
        /\ ~Found(t)
        /\ task[t].published = << >>
        /\ \E u \in Calls : u < t /\ task[u].published # << >>

\* the two Result variants
IsResult(v) ==
    \/ /\ DOMAIN v = {"status", "data"}
       /\ v.status = "success"
    \/ /\ DOMAIN v = {"status", "message"}
       /\ v.status = "error"
       /\ v.message \in STRING

Range(q) == {q[i] : i \in 1..Len(q)}

\* C4: every value that is or has been on the output channel, buffered or
\* received, is one of the two Result variants
C4_OnlyResultShapes ==
    \A v \in everOnChan \cup Range(chan) \cup Range(received) : IsResult(v)

C4_Witness ==
    /\ \E v \in everOnChan : v.status = "success"
    /\ \E v \in everOnChan : v.status = "error"
    /\ received # << >>

\* C5: lookup of a registered name returns the adapter of the most recent
\* register call for it; a register call leaves every other name's entry
\* unchanged and can always be made
C5_LastWriteWins ==
    /\ [](\A n \in Names :
            Registered(n) => get(adapters, n) = Some(regLog[LastReg(n)][2]))
    /\ [](Len(regLog) < MaxRegs =>
            \A n \in Names, h \in Handlers : ENABLED Register(n, h))
    /\ [][\A m \in Names :
            m # regLog'[Len(regLog')][1] => get(adapters', m) = get(adapters, m)]_vars

C5_Witness ==
    \E i, j \in 1..Len(regLog) :
        /\ i < j
        /\ regLog[i][1] = regLog[j][1]
        /\ regLog[i][2] # regLog[j][2]
        /\ j = LastReg(regLog[j][1])
        /\ get(adapters, regLog[j][1]) = Some(regLog[j][2])
        /\ \E k \in 1..Len(regLog) : regLog[k][1] # regLog[j][1]

\* C6: lookup of a name that was never registered returns None, whatever
\* else has been registered; on a fresh Registry every lookup returns None
C6_UnregisteredNotFound ==
    /\ \A m \in Names : ~Registered(m) => get(adapters, m) = None
    /\ regLog = << >> => adapters = Registry_new

C6_Witness ==
    /\ Len(regLog) >= 2
    /\ ~Registered("ghost")
    /\ get(adapters, "ghost") = None

\* C7: each call publishes at most one Result, calls for unknown adapters
\* publish none, and the number of Results ever sent does not exceed the
\* number of dispatched calls whose handler has completed
C7_AtMostOnePerCall ==
    /\ \A t \in Calls :
          /\ Len(task[t].published) <= 1
          /\ ~Found(t) => task[t].published = << >>
          /\ task[t].published # << >> => Handled(t)
    /\ nSent = Cardinality({t \in Calls : task[t].published # << >>})
    /\ nSent <= Cardinality({t \in Calls : Found(t) /\ Handled(t)})
    /\ Len(chan) + Len(received) <= nSent

C7_Witness ==
    \E t, u \in Calls :
        /\ task[t].pc = "returned" /\ ~Found(t)
        /\ task[u].pc = "returned" /\ task[u].published # << >>
        /\ nSent = 1

\* two calls are suspended in the handlers of two different adapters
Concurrent(t, u) ==
    /\ t # u
    /\ task[t].pc = "handling"
    /\ task[u].pc = "handling"
    /\ task[t].adapter # task[u].adapter

\* the Result that carries the outcome of call t's own handler
OwnResult(t) ==
    IF IsOk(task[t].result.some)
    THEN SuccessOf(task[t].result.some.ok)
    ELSE ErrorOf(task[t].result.some.err)

Count(q, v) == Cardinality({i \in 1..Len(q) : q[i] = v})

\* each of the two calls has put exactly its own Result on the channel and
\* the consumer has received both
BothDelivered(t, u) ==
    /\ Handled(t) /\ Handled(u)
    /\ task[t].published = << OwnResult(t) >>
    /\ task[u].published = << OwnResult(u) >>
    /\ Count(received, OwnResult(t)) >=
          (IF OwnResult(t) = OwnResult(u) THEN 2 ELSE 1)
    /\ Count(received, OwnResult(u)) >=
          (IF OwnResult(t) = OwnResult(u) THEN 2 ELSE 1)

\* C8: when two calls run concurrently in the handlers of two different
\* registered adapters and the receiver stays alive, then under fair
\* scheduling both calls' own Results are eventually published and received
C8_BothEventuallyDelivered ==
    \A t, u \in Calls :
        (Concurrent(t, u) /\ rxAlive) ~> (~rxAlive \/ BothDelivered(t, u))

\* the same with the calls that unwind in the handler set aside
C8_UnlessUnwound ==
    \A t, u \in Calls :
        (Concurrent(t, u) /\ rxAlive)
        ~> (\/ ~rxAlive
            \/ task[t].pc = "panicked"
            \/ task[u].pc = "panicked"
            \/ BothDelivered(t, u))

\* C9: a send that finds the channel closed ends the call normally with
\* nothing published and nothing retried; the step touches no other call
\* and not the channel, and the next call can still be made
C9_ClosedChannelSilent ==
    /\ [](\A t \in Calls :
            SendFailed(t)
            => /\ task[t].pc = "returned"
               /\ task[t].published = << >>
               /\ ~rxAlive
               /\ \A u \in Calls :
                    (task[u].pc = "idle" /\ (u = 1 \/ task[u - 1].pc # "idle"))
                    => \A request \in Requests : ENABLED Execute(u, request))
    /\ [][\A t \in Calls :
            (task[t].pc = "sending" /\ ~rxAlive /\ task'[t] # task[t])
            => /\ task'[t].pc = "returned"
               /\ chan' = chan
               /\ nSent' = nSent
               /\ \A u \in Calls \ {t} : task'[u] = task[u]]_vars

C9_Witness ==
    \E t \in Calls :
        /\ SendFailed(t)
        /\ task[t].pc = "returned"
        /\ t + 1 \in Calls
        /\ task[t + 1].pc = "idle"

\* C10: no execute call ever unwinds: every call that was made is suspended
\* in its handler or its send, or has returned
C10_NeverFaults == \A t \in Calls : task[t].pc # "panicked"

\* C11: no step of any execute call changes the Registry: it stays the
\* registry main built, whatever the calls end in; every call that names a
\* registered adapter is dispatched to the adapter registered under that
\* name, and a call that returned after a successful send has published the
\* Result of its own handler
C11_RegistryUntouched ==
    /\ [][adapters' = adapters]_vars
    /\ [](/\ adapters = MainRegistry
          /\ \A n \in Names : Registered(n) <=> n \in DOMAIN adapters
          /\ \A t \in Calls :
                task[t].pc # "idle"
                => /\ task[t].adapter = get(MainRegistry, adapter_name(task[t].req))
                   /\ (task[t].pc = "returned" /\ SendOk(t))
                        => task[t].published = << OwnResult(t) >>)

\* a call for an unknown adapter returned before the next call was made, and
\* that next call was dispatched and answered with its own success Result
C11_Witness ==
    \E t \in Calls :
        /\ t + 1 \in Calls
        /\ task[t].pc = "returned" /\ ~Found(t)
        /\ task[t + 1].pc = "returned"
        /\ Found(t + 1)
        /\ IsOk(task[t + 1].result.some)
        /\ task[t + 1].published = << OwnResult(t + 1) >>
        /\ adapters = MainRegistry

\* the field of the request is absent or not a string
NotStr(request, field) == "str" \notin DOMAIN Index(request, field)

\* C12: a request whose adapter is absent or not a string is routed as the
\* name "": it is dispatched to the adapter registered under "" when there
\* is one and otherwise returns with nothing published; an absent or
\* non-string action reaches the handler as "" and absent params as null;
\* none of this unwinds the call
C12_MissingFieldsDefault ==
    \A t \in Calls :
        task[t].pc # "idle"
        => /\ NotStr(task[t].req, "adapter")
                => /\ task[t].adapter = get(adapters, "")
                   /\ "" \notin DOMAIN adapters
                        => task[t].pc = "returned" /\ task[t].published = << >>
           /\ (NotStr(task[t].req, "adapter") \/ NotStr(task[t].req, "action")
                 \/ Index(task[t].req, "params") = Null)
                => task[t].pc # "panicked"
           /\ (NotStr(task[t].req, "action") /\ Handled(t))
                => task[t].result = Some(Err("Unknown action"))
           /\ (/\ Handled(t)
               /\ task[t].adapter = Some("CalculatorAdapter")
               /\ action_of(task[t].req) = "add"
               /\ Index(task[t].req, "params") = Null)
                => task[t].result = Some(Ok(Num(0)))

C12_Witness ==
    /\ task[1].pc = "returned"
    /\ Index(task[1].req, "adapter") = Num(1)
    /\ "" \in DOMAIN adapters
    /\ task[1].adapter = Some("CalculatorAdapter")
    /\ task[1].published = << SuccessOf(Num(3)) >>

\* call t was dispatched to the calculator with the action "add"
IsAdd(t) ==
    /\ task[t].pc # "idle"
    /\ task[t].adapter = Some("CalculatorAdapter")
    /\ action_of(task[t].req) = "add"

OperandA(t) == Index(params_of(task[t].req), "a")
OperandB(t) == Index(params_of(task[t].req), "b")

\* the operand is an integer number
IsInteger(x) == "num" \in DOMAIN x
\* the operand is an integer of the signed range
IsI64(x) == IsInteger(x) /\ x.num >= I64Min /\ x.num <= I64Max

\* the operand as the claim reads it: the supplied integer, or 0
SuppliedOrZero(x) == IF IsInteger(x) THEN x.num ELSE 0
\* the operand as amended: the supplied integer of the signed range, or 0
I64OrZero(x) == IF IsI64(x) THEN x.num ELSE 0

\* C13 as stated: when an operand of add is missing or not an integer, the
\* handler returns Ok(a' + b') with a', b' the supplied integers or 0, and
\* the success Result carries that sum
C13_AsStated ==
    \A t \in Calls :
        (/\ IsAdd(t)
         /\ ~IsInteger(OperandA(t)) \/ ~IsInteger(OperandB(t))
         /\ task[t].pc \in {"sending", "returned"})
        => /\ task[t].result =
                Some(Ok(Num(SuppliedOrZero(OperandA(t))
                            + SuppliedOrZero(OperandB(t)))))
           /\ task[t].response =
                Some(SuccessOf(Num(SuppliedOrZero(OperandA(t))
                                   + SuppliedOrZero(OperandB(t)))))

\* C13 amended: when an operand of add is missing, not a number or not an
\* integer of the signed 64-bit range, it counts as 0: the call does not
\* unwind, the handler returns Ok(a' + b') with a', b' the supplied integers
\* of that range or 0, and the Result built is the success Result of that sum;
\* add never returns an error, whatever its operands
C13_DefaultsToZero ==
    \A t \in Calls :
        IsAdd(t)
        => /\ Handled(t) => IsOk(task[t].result.some)
           /\ (~IsI64(OperandA(t)) \/ ~IsI64(OperandB(t)))
                => /\ task[t].pc # "panicked"
                   /\ task[t].pc \in {"sending", "returned"}
                        => /\ task[t].result =
                                Some(Ok(Num(I64OrZero(OperandA(t))
                                            + I64OrZero(OperandB(t)))))
                           /\ task[t].response =
                                Some(SuccessOf(Num(I64OrZero(OperandA(t))
                                                   + I64OrZero(OperandB(t)))))

C13_Witness ==
    /\ task[1].pc = "returned"
    /\ IsAdd(1)
    /\ params_of(task[1].req) = Obj([a |-> Num(5)])
    /\ task[1].published = << SuccessOf(Num(5)) >>

\* C14: for operands a and b of the signed 64-bit range, add does not unwind
\* and returns Ok(a + b), the mathematical sum, also when the sum is outside
\* that range
C14_ExactSum ==
    \A t \in Calls :
        (IsAdd(t) /\ IsI64(OperandA(t)) /\ IsI64(OperandB(t)))
        => /\ task[t].pc # "panicked"
           /\ Handled(t) =>
                task[t].result = Some(Ok(Num(OperandA(t).num + OperandB(t).num)))

\* call t was dispatched to the file adapter with the action "write"
IsWrite(t) ==
    /\ task[t].pc # "idle"
    /\ task[t].adapter = Some("FileAdapter")
    /\ action_of(task[t].req) = "write"

\* the error the claim names for the params of call t, if any
MissingField(t) ==
    IF NotStr(params_of(task[t].req), "path") THEN Some("Missing path")
    ELSE IF NotStr(params_of(task[t].req), "content") THEN Some("Missing content")
    ELSE None

\* C15: a write whose path or content is missing or not a string returns
\* Err("Missing path") / Err("Missing content"), its Result is the error
\* Result of that message, and the step leaves the file system as it was;
\* a write with both strings that succeeds returns Ok("File written"),
\* its Result is {status: success, data: "File written"}, and the file at
\* path holds exactly content from then on
C15_WriteValidates ==
    /\ [](\A t \in Calls :
            (IsWrite(t) /\ task[t].pc \in {"sending", "returned"})
            => /\ IsSome(MissingField(t))
                    => /\ task[t].result = Some(Err(MissingField(t).some))
                       /\ task[t].response = Some(ErrorOf(MissingField(t).some))
                       /\ task[t].wrote = 0
               /\ (~IsSome(MissingField(t)) /\ IsOk(task[t].result.some))
                    => /\ task[t].result = Some(Ok(Str("File written")))
                       /\ task[t].response = Some(SuccessOf(Str("File written")))
                       /\ task[t].wrote = 1
                       /\ Index(params_of(task[t].req), "path").str \in DOMAIN files
                       /\ files[Index(params_of(task[t].req), "path").str]
                            = Index(params_of(task[t].req), "content").str
               /\ SendOk(t) => task[t].published = << task[t].response.some >>)
    /\ [][\A t \in Calls :
            (IsWrite(t) /\ IsSome(MissingField(t)) /\ task[t].pc = "handling")
            => files' = files]_vars

C15_Witness ==
    /\ task[1].pc = "returned"
    /\ IsWrite(1)
    /\ params_of(task[1].req) = Obj([path |-> Str("/tmp/x"), content |-> Str("hi")])
    /\ task[1].published = << SuccessOf(Str("File written")) >>
    /\ files = [p \in {"/tmp/x"} |-> "hi"]

\* C16: a call at its send with the buffer full and the receiver alive is
\* suspended; it leaves the send only when there is room (or the channel
\* closed), and then, the receiver alive, by queueing exactly its Result;
\* room is only made by a receive, so the sends completed never exceed the
\* capacity plus the number of receives; with the consumer receiving, the
\* suspended call's Result is eventually published
C16_FullChannelSuspends ==
    /\ [](/\ Len(chan) <= ChanCap
          /\ nSent <= ChanCap + Len(received)
          /\ \A t \in Calls :
                (task[t].pc = "sending" /\ rxAlive /\ Len(chan) = ChanCap)
                => ~ENABLED Send(t))
    /\ [][\A t \in Calls :
            (task[t].pc = "sending" /\ task'[t].pc # "sending")
            => /\ Len(chan) < ChanCap \/ ~rxAlive
               /\ rxAlive
                    => /\ chan' = Append(chan, task[t].response.some)
                       /\ task'[t].published = << task[t].response.some >>
                       /\ task'[t].pc = "returned"]_vars
    /\ [][(rxAlive' /\ Len(chan') < Len(chan))
            => received' = Append(received, Head(chan))]_vars
    /\ \A t \in Calls :
          (task[t].pc = "sending" /\ rxAlive)
          ~> (\/ ~rxAlive
              \/ /\ task[t].pc = "returned"
                 /\ Handled(t)
                 /\ task[t].published = << OwnResult(t) >>)

\* the buffer holds ChanCap Results, nothing was received, and one more call
\* is suspended at its send
C16_Witness ==
    \E t \in Calls :
        /\ task[t].pc = "sending"
        /\ rxAlive
        /\ Len(chan) = ChanCap
        /\ nSent = ChanCap
        /\ received = << >>

\* C17: while the handler of the first call never completes, every other
\* call running beside it is still dispatched, completes and publishes its
\* own Result (the receiver staying alive)
C17_OthersComplete ==
    \A u \in Calls \ {1} :
        (task[1].pc = "handling" /\ task[u].pc = "handling" /\ rxAlive)
        ~> (\/ ~rxAlive
            \/ /\ task[u].pc = "returned"
               /\ Handled(u)
               /\ task[u].published = << OwnResult(u) >>)

\* the same with the calls that unwind in their own handler set aside
C17_UnlessUnwound ==
    \A u \in Calls \ {1} :
        (task[1].pc = "handling" /\ task[u].pc = "handling" /\ rxAlive)
        ~> (\/ ~rxAlive
            \/ task[u].pc = "panicked"
            \/ /\ task[u].pc = "returned"
               /\ Handled(u)
               /\ task[u].published = << OwnResult(u) >>)

\* a call suspended in its handler has published nothing and not returned,
\* and it disables no step of any other call
C17_HungCallIsolated ==
    \A t \in Calls :
        task[t].pc = "handling"
        => /\ task[t].published = << >>
           /\ task[t].result = None
           /\ task[t].sendResult = None
           /\ \A u \in Calls \ {t} :
                /\ task[u].pc = "handling" => ENABLED HandleDone(u)
                /\ (task[u].pc = "sending" /\ (Len(chan) < ChanCap \/ ~rxAlive))
                     => ENABLED Send(u)
                /\ (task[u].pc = "idle" /\ task[u - 1].pc # "idle")
                     => \A request \in Requests : ENABLED Execute(u, request)

\* the values of the sends that queued a value, in the order of the sends
LogValues == [i \in 1..Len(sentLog) |-> sentLog[i].value]

\* the place of call t's Result in the order of publication (0: none)
PublishedAt(t) ==
    IF \E i \in 1..Len(sentLog) : sentLog[i].call = t
    THEN CHOOSE i \in 1..Len(sentLog) : sentLog[i].call = t
    ELSE 0

C19_MainNeverTerminates ==
    /\ [](rxAlive)
    /\ [](task[1].req = MainRequest
            => /\ task[1].pc # "panicked"
               /\ received \in {<< >>, << SuccessOf(Num(15)) >>})
    /\ (task[1].req = MainRequest)
          ~> [](/\ received = << SuccessOf(Num(15)) >>
                /\ task[1].pc = "returned"
                /\ chan = << >>
                /\ rxAlive
                /\ ~ENABLED MainNext)

\* main's request was executed, its Result received, and the loop is
\* waiting on the next receive
C19_Witness ==
    /\ task[1].req = MainRequest
    /\ task[1].pc = "returned"
    /\ received = << SuccessOf(Num(15)) >>
    /\ chan = << >>
    /\ rxAlive

====
